---- MODULE Spec2Model ----
(***************************************************************************)
(* Model of the FidesInnova/zkiot-rust helper scripts:                     *)
(*   - src/unrelated/z_vec.py: the trace evaluator building Z=[1]+X+W+Y     *)
(*   - src/unrelated/setup_zkp.py and src/zk_iot/prime_generator_finder.py: *)
(*     the constrained prime search and the generator (primitive root)     *)
(*     search.                                                             *)
(* Three specifications share the module: Spec (one run of z_vec.py),      *)
(* SpecFind (the prime and generator functions applied to arbitrary        *)
(* positive n, m) and SpecScript (one run of a prime-finder script on an   *)
(* instruction file).                                                      *)
(***************************************************************************)
EXTENDS Integers, Sequences, FiniteSets, TLC

VARIABLES
  \* ---- z_vec.py
  parsed_data,   \* parser("program.s"): sequence of <<instruction, operands>>
  register_map,  \* the global register dict (name -> value)
  x, w, y, t,    \* the module-level lists of z_vec.py
  k,             \* position of the evaluation loop in parsed_data (1-based)
  i,             \* index of the backward scan (0-based, as in the code)
  pc,            \* "eval", "scan", "done" or "aborted"
  error,         \* the exception that aborted the run, "" if none
  w_raw,         \* w as the evaluation loop left it (before the scan pops)
  z_file,        \* content of proof_generation/z_vec.txt, <<>> = not written
  \* ---- setup_zkp.py / prime_generator_finder.py
  script,        \* which file's code runs
  fn,            \* the prime search function called
  file,          \* the instruction file: sequence of line kinds
  n_i, n_g, n, m,
  prime,         \* result of the prime search (a Result, see below)
  gp, g,         \* p and g of the generator loop
  fpc,           \* position in the script
  ret,           \* <<p, g>> the generator search yielded, None if nothing
  printed,       \* the messages printed about the search's result
  outcome,       \* "" while running, "exit" or the uncaught exception's name
  class_table,   \* values written to class_table.json, <<>> = untouched
  math_rs        \* <<p, g>> patched into src/math.rs, <<>> = untouched

zvars == <<parsed_data, register_map, x, w, y, t, k, i, pc, error, w_raw, z_file>>
pvars == <<script, fn, file, n_i, n_g, n, m, prime, gp, g, fpc, ret, printed, outcome,
           class_table, math_rs>>
vars == <<zvars, pvars>>

----------------------------------------------------------------------------
(* Bounds of the model *)

\* longest instruction trace explored
MaxLen == 4

\* the searches run below 2^SearchBits instead of 2^31 (2^7 - 1 = 127 is a
\* Mersenne prime, as 2^31 - 1 is)
SearchBits == 7

\* n and m of the direct calls range over 1..MaxN
MaxN == 14

\* longest instruction file given to a prime-finder script
MaxFile == 4

----------------------------------------------------------------------------
(* z_vec.py *)

\* z_vec.py line 18: the modulus in force (lines 15, 16 are overwritten)
p == 1678321

\* keys of register_map in insertion order (z_vec.py lines 27-60)
RegNames ==
  << "zero", "ra", "sp", "gp", "tp", "t0", "t1", "t2", "s0", "s1",
     "a0", "a1", "a2", "a3", "a4", "a5", "a6", "a7",
     "s2", "s3", "s4", "s5", "s6", "s7", "s8", "s9", "s10", "s11",
     "t3", "t4", "t5", "t6" >>

\* the dict literal: the j-th name maps to j - 1
register_map0 ==
  [r \in {RegNames[j] : j \in 1..Len(RegNames)} |->
     (CHOOSE j \in 1..Len(RegNames) : RegNames[j] = r) - 1]

\* the mnemonics the specification admits
ClosedSet == {"add", "addi", "mul", "sub", "div", "ld"}

\* int(s) on the operand strings of the modelled input: the value, or no entry
\* (ValueError) for a string that is no integer literal
IntLiterals == ("3" :> 3) @@ ("-40" :> (0 - 40)) @@ ("2000000" :> 2000000)

\* the lines a modelled program.s is made of, as parser() returns them
ProgramLines ==
  { <<"addi", <<"a0", "a0", "2000000">>>>,
    <<"addi", <<"a1", "a0", "-40">>>>,
    <<"mul",  <<"t6", "t6", "t5">>>>,
    <<"add",  <<"a0", "a0", "t6">>>>,
    <<"sub",  <<"a1", "a0", "t6">>>>,
    <<"foo",  <<"a1", "a0", "t6">>>>,
    <<"addi", <<"x9", "a0", "3">>>>,
    <<"add",  <<"a0", "x8", "t6">>>>,
    <<"addi", <<"a1", "a0", "zz">>>> }

\* the programs of at most MaxLen lines
Programs == UNION {[1..len -> ProgramLines] : len \in 0..MaxLen}

Raise(e) == [err |-> e, rm |-> register_map0]
Ok(rm) == [err |-> "", rm |-> rm]

\* register_map[d] = v (an unknown key is inserted, as a dict does)
SetItem(rm, d, v) ==
  [r \in DOMAIN rm \cup {d} |-> IF r = d THEN v ELSE rm[r]]

\* z_vec.py lines 129-134: the three "if inst == ..." of one iteration.
\* Operand reg[j] of the code is reg[j + 1] here.
Update(inst, reg, rm) ==
  IF inst = "addi" THEN
    IF Len(reg) < 2 THEN Raise("IndexError")
    ELSE IF reg[2] \notin DOMAIN rm THEN Raise("KeyError")
    ELSE IF Len(reg) < 3 THEN Raise("IndexError")
    ELSE IF reg[3] \notin DOMAIN IntLiterals THEN Raise("ValueError")
    ELSE Ok(SetItem(rm, reg[1], rm[reg[2]] + IntLiterals[reg[3]]))
  ELSE IF inst \in {"add", "mul"} THEN
    IF Len(reg) < 2 THEN Raise("IndexError")
    ELSE IF reg[2] \notin DOMAIN rm THEN Raise("KeyError")
    ELSE IF Len(reg) < 3 THEN Raise("IndexError")
    ELSE IF reg[3] \notin DOMAIN rm THEN Raise("KeyError")
    ELSE IF inst = "add" THEN Ok(SetItem(rm, reg[1], rm[reg[2]] + rm[reg[3]]))
    ELSE Ok(SetItem(rm, reg[1], rm[reg[2]] * rm[reg[3]]))
  ELSE Ok(rm)

\* z_vec.py line 135: the write event of one iteration
WriteEvent(reg, rm) ==
  IF Len(reg) < 1 THEN Raise("IndexError")
  ELSE IF reg[1] \notin DOMAIN rm THEN Raise("KeyError")
  ELSE Ok(rm)

\* the membership test always failing: every scanned entry counts as new
ContainsNever(names, r) == FALSE

\* "name in t" (z_vec.py line 141)
Contains(names, r) == \E j \in 1..Len(names) : names[j] = r

\* w.pop(i) left out: nothing is removed
PopNothing(s, idx) == s

\* w.pop(i), i 0-based
Pop(s, idx) == [j \in 1..(Len(s) - 1) |-> IF j <= idx THEN s[j] ELSE s[j + 1]]

\* z_vec.py lines 121-127: state when the evaluation loop starts
InitZ ==
  /\ parsed_data \in Programs
  /\ register_map = register_map0
  /\ x = [j \in 1..Len(RegNames) |-> register_map0[RegNames[j]]]
  /\ w = <<>>
  /\ y = <<>>
  /\ t = <<>>
  /\ k = 1
  /\ i = 0
  /\ pc = "eval"
  /\ error = ""
  /\ w_raw = <<>>
  /\ z_file = <<>>

\* z_vec.py lines 128-135: one iteration of the evaluation loop
EvalStep ==
  /\ pc = "eval"
  /\ k <= Len(parsed_data)
  /\ LET inst == parsed_data[k][1]
         reg == parsed_data[k][2]
         u == Update(inst, reg, register_map)
         e == IF u.err # "" THEN u ELSE WriteEvent(reg, u.rm)
     IN IF e.err # ""
        THEN /\ pc' = "aborted"
             /\ error' = e.err
             /\ UNCHANGED <<register_map, w, w_raw, k>>
        ELSE /\ register_map' = e.rm
             /\ w' = Append(w, <<reg[1], e.rm[reg[1]] % p>>)
             /\ w_raw' = Append(w_raw, <<reg[1], e.rm[reg[1]] % p>>)
             /\ k' = k + 1
             /\ UNCHANGED <<pc, error>>
  /\ UNCHANGED <<parsed_data, x, y, t, i, z_file>>
  /\ UNCHANGED pvars

\* z_vec.py lines 137-140: the loop is over; t = [] and the scan starts at
\* i = len(w) - 1
StartScan ==
  /\ pc = "eval"
  /\ k > Len(parsed_data)
  /\ t' = <<>>
  /\ i' = Len(w) - 1
  /\ pc' = "scan"
  /\ UNCHANGED <<parsed_data, register_map, x, w, y, k, error, w_raw, z_file>>
  /\ UNCHANGED pvars

\* z_vec.py lines 140-144: one iteration of "for i in range(len(w) - 1, 0, -1)"
ScanStep ==
  /\ pc = "scan"
  /\ i > 0
  /\ IF ~Contains(t, w[i + 1][1])
     THEN /\ y' = <<w[i + 1][2]>> \o y
          /\ t' = Append(t, w[i + 1][1])
          /\ w' = Pop(w, i)
     ELSE UNCHANGED <<y, t, w>>
  /\ i' = i - 1
  /\ UNCHANGED <<parsed_data, register_map, x, k, pc, error, w_raw, z_file>>
  /\ UNCHANGED pvars

\* z_vec.py lines 146-153: project w to its values, build z, write the file
Finish ==
  /\ pc = "scan"
  /\ i <= 0
  /\ w' = [j \in 1..Len(w) |-> w[j][2]]
  /\ z_file' = <<1>> \o x \o w' \o y
  /\ pc' = "done"
  /\ UNCHANGED <<parsed_data, register_map, x, y, t, k, i, error, w_raw>>
  /\ UNCHANGED pvars


----------------------------------------------------------------------------
(* setup_zkp.py and prime_generator_finder.py: the functions *)

\* max_32_bit = 2**31 - 1 (setup_zkp.py lines 21, 29; prime_generator_finder.py
\* line 14), scaled to SearchBits bits
max_32_bit == 2^SearchBits - 1

\* what a call produces: a number, None, or an exception
Value(v) == <<"value", v>>
None == <<"None">>
ZeroDivisionError == <<"ZeroDivisionError">>

\* int(num**0.5)
isqrt(num) == CHOOSE r \in 0..num : r * r <= num /\ (r + 1) * (r + 1) > num

\* prime_generator_finder.py lines 5-11
is_prime(num) ==
  IF num <= 1 THEN FALSE
  ELSE \A d \in 2..isqrt(num) : num % d # 0

\* the divisor range cut one short: range(3, int(n**0.5), 2)
setup_is_prime_short(num) ==
  IF num <= 1 THEN FALSE
  ELSE IF num = 2 THEN TRUE
  ELSE IF num % 2 = 0 THEN FALSE
  ELSE \A d \in {e \in 3..(isqrt(num) - 1) : (e - 3) % 2 = 0} : num % d # 0

\* setup_zkp.py lines 6-18
setup_is_prime(num) ==
  IF num <= 1 THEN FALSE
  ELSE IF num = 2 THEN TRUE
  ELSE IF num % 2 = 0 THEN FALSE
  ELSE \A d \in {e \in 3..isqrt(num) : (e - 3) % 2 = 0} : num % d # 0

\* the first hit of a loop that runs downwards / upwards over the candidates
Highest(S) == CHOOSE v \in S : \A u \in S : u <= v
Lowest(S) == CHOOSE v \in S : \A u \in S : v <= u

\* prime_generator_finder.py lines 13-18: for num in range(max_32_bit, 1, -1),
\* return the first num with is_prime(num) and (num - 1) % n == 0 and
\* (num - 1) % m == 0. "and" evaluates left to right, so (num - 1) % m is
\* reached (and raises when m is 0) only for a prime with (num - 1) % n == 0.
find_largest_prime(nn, mm) ==
  LET reached == {num \in 2..max_32_bit : is_prime(num) /\ (num - 1) % nn = 0}
      hits == {num \in reached : (num - 1) % mm = 0}
  IN IF mm = 0
     THEN IF reached # {} THEN ZeroDivisionError ELSE None
     ELSE IF hits # {} THEN Value(Highest(hits)) ELSE None

\* the start taken as max_32_bit - max_32_bit % (n * m), a multiple of n * m
find_large_prime_from_multiple(nn, mm) ==
  IF nn * mm = 0 THEN ZeroDivisionError
  ELSE LET start == max_32_bit - (max_32_bit % (nn * mm))
           hits == {num \in 2..start :
                      (start - num) % (nn * mm) = 0 /\ setup_is_prime(num)}
       IN IF hits # {} THEN Value(Highest(hits)) ELSE None

\* setup_zkp.py lines 20-26: for num in
\* range(max_32_bit - (max_32_bit - 1) % (n * m), 1, -(n * m)), return the
\* first num with is_prime(num)
find_large_prime(nn, mm) ==
  IF nn * mm = 0 THEN ZeroDivisionError
  ELSE LET start == max_32_bit - ((max_32_bit - 1) % (nn * mm))
           hits == {num \in 2..start :
                      (start - num) % (nn * mm) = 0 /\ setup_is_prime(num)}
       IN IF hits # {} THEN Value(Highest(hits)) ELSE None

\* setup_zkp.py lines 28-34: for num in range(1, max_32_bit, 1), return the
\* first num with is_prime(num) and (num - 1) % m == 0 and (num - 1) % n == 0;
\* (num - 1) % m is reached (and raises when m is 0) at the first prime
find_small_prime(nn, mm) ==
  LET reached == {num \in 1..(max_32_bit - 1) : setup_is_prime(num)}
      hits == {num \in reached : (num - 1) % mm = 0 /\ (num - 1) % nn = 0}
  IN IF mm = 0
     THEN IF reached # {} THEN ZeroDivisionError ELSE None
     ELSE IF hits # {} THEN Value(Lowest(hits)) ELSE None

\* the search a caller names
Call(f, nn, mm) ==
  CASE f = "find_largest_prime" -> find_largest_prime(nn, mm)
    [] f = "find_large_prime" -> find_large_prime(nn, mm)
    [] f = "find_small_prime" -> find_small_prime(nn, mm)

\* a ** e % q by repeated squaring
RECURSIVE ModPow(_, _, _)
ModPow(a, e, q) ==
  IF e = 0 THEN 1 % q
  ELSE LET h == ModPow(a, e \div 2, q)
       IN IF e % 2 = 0 THEN (h * h) % q ELSE (((h * h) % q) * a) % q

\* sympy.is_primitive_root(a, q) for a prime q and 1 < a < q: for every prime
\* factor f of q - 1, a ** ((q - 1) / f) % q != 1
is_primitive_root(a, q) ==
  \A f \in {e \in 2..(q - 1) : (q - 1) % e = 0 /\ is_prime(e)} :
     ModPow(a, (q - 1) \div f, q) # 1

\* count_instructions (setup_zkp.py lines 37-52, prime_generator_finder.py
\* lines 20-35) on a file given as its lines' kinds: "ld" (third word is ld),
\* "other" (any other third word), "short" (fewer than three words)
count_instructions(f) ==
  <<Cardinality({j \in 1..Len(f) : f[j] = "ld"}),
    Cardinality({j \in 1..Len(f) : f[j] = "other"})>>

\* setup_zkp.py line 126
n_i_override == 32

\* m = ((n**2 - n) / 2) - ((t**2 - t) / 2) with t = n_i + 1 (setup_zkp.py
\* lines 127-129, prime_generator_finder.py lines 44-46); both halves are
\* whole numbers
derive_m(ni, nn) ==
  LET tt == ni + 1 IN ((nn * nn - nn) \div 2) - ((tt * tt - tt) \div 2)

----------------------------------------------------------------------------
(* setup_zkp.py and prime_generator_finder.py: the runs *)

Scripts == {"setup_zkp.py", "prime_generator_finder.py"}

\* the searches each file defines
FunctionsOf(s) ==
  IF s = "setup_zkp.py" THEN {"find_large_prime", "find_small_prime"}
  ELSE {"find_largest_prime"}

\* the search each script calls (setup_zkp.py line 136,
\* prime_generator_finder.py line 52)
CalledBy(s) ==
  IF s = "setup_zkp.py" THEN "find_small_prime" ELSE "find_largest_prime"

Files == UNION {[1..len -> {"ld", "other", "short"}] : len \in 0..MaxFile}

\* setup_zkp.py lines 125-129, prime_generator_finder.py lines 42-46
Count ==
  /\ fpc = "count"
  /\ LET c == count_instructions(file)
         ni == IF script = "setup_zkp.py" THEN n_i_override ELSE c[1]
     IN /\ n_i' = ni
        /\ n_g' = c[2]
        /\ n' = ni + c[2] + 1
        /\ m' = derive_m(ni, ni + c[2] + 1)
  /\ fpc' = "search"
  /\ UNCHANGED <<script, fn, file, prime, gp, g, ret, printed, outcome,
                 class_table, math_rs>>
  /\ UNCHANGED zvars

\* setup_zkp.py line 136, prime_generator_finder.py line 52
Search ==
  /\ fpc = "search"
  /\ prime' = Call(fn, n, m)
  /\ IF prime' = ZeroDivisionError
     THEN outcome' = "ZeroDivisionError" /\ fpc' = "ended"
     ELSE outcome' = outcome /\ fpc' = "generator"
  /\ UNCHANGED <<script, fn, file, n_i, n_g, n, m, gp, g, ret, printed,
                 class_table, math_rs>>
  /\ UNCHANGED zvars

\* "if largest_prime:" and its else branch (setup_zkp.py lines 85-90, 98-100;
\* prime_generator_finder.py lines 54-59, 67-68)
EnterGenerator ==
  /\ fpc = "generator"
  /\ IF prime # None /\ prime[2] # 0
     THEN /\ gp' = prime[2]
          /\ g' = 2
          /\ fpc' = "loop"
          /\ UNCHANGED <<ret, printed, outcome>>
     ELSE /\ printed' = Append(printed, "No such prime number found.")
          /\ ret' = None
          /\ IF script = "setup_zkp.py"
             THEN fpc' = "returned" /\ outcome' = outcome
             ELSE fpc' = "ended" /\ outcome' = "exit"
          /\ UNCHANGED <<gp, g>>
  /\ UNCHANGED <<script, fn, file, n_i, n_g, n, m, prime, class_table, math_rs>>
  /\ UNCHANGED zvars

\* one test of "while g < p" and the body it guards (setup_zkp.py lines 93-97,
\* prime_generator_finder.py lines 62-66). setup_zkp.py's function returns
\* (p, g) from the loop and falls off its end (returning None) when the loop
\* runs out; prime_generator_finder.py breaks, or reaches the end of the file.
GeneratorLoop ==
  /\ fpc = "loop"
  /\ IF g < gp
     THEN IF is_primitive_root(g, gp)
          THEN /\ ret' = <<gp, g>>
               /\ printed' = Append(printed, "Generator")
               /\ IF script = "setup_zkp.py"
                  THEN fpc' = "returned" /\ outcome' = outcome
                  ELSE fpc' = "ended" /\ outcome' = "exit"
               /\ g' = g
          ELSE /\ g' = g + 1
               /\ UNCHANGED <<ret, printed, fpc, outcome>>
     ELSE /\ ret' = None
          /\ IF script = "setup_zkp.py"
             THEN fpc' = "returned" /\ outcome' = outcome
             ELSE fpc' = "ended" /\ outcome' = "exit"
          /\ UNCHANGED <<g, printed>>
  /\ UNCHANGED <<script, fn, file, n_i, n_g, n, m, prime, gp, class_table, math_rs>>
  /\ UNCHANGED zvars

\* setup_zkp.py lines 139-143: unpack the returned tuple, then
\* update_test_values and update_rust_constants
SetupTail ==
  /\ fpc = "returned"
  /\ script = "setup_zkp.py"
  /\ IF ret = None
     THEN /\ outcome' = "TypeError"
          /\ UNCHANGED <<class_table, math_rs>>
     ELSE /\ class_table' = <<n_g, n_i, m, n>>
          /\ math_rs' = ret
          /\ outcome' = "exit"
  /\ fpc' = "ended"
  /\ UNCHANGED <<script, fn, file, n_i, n_g, n, m, prime, gp, g, ret, printed>>
  /\ UNCHANGED zvars

----------------------------------------------------------------------------
(* The specifications *)

IdleZ ==
  /\ parsed_data = <<>> /\ register_map = register_map0 /\ x = <<>> /\ w = <<>>
  /\ y = <<>> /\ t = <<>> /\ k = 1 /\ i = 0 /\ pc = "idle" /\ error = ""
  /\ w_raw = <<>> /\ z_file = <<>>

IdleP ==
  /\ script = "" /\ fn = "" /\ file = <<>> /\ n_i = 0 /\ n_g = 0 /\ n = 0 /\ m = 0
  /\ prime = None /\ gp = 0 /\ g = 0 /\ fpc = "idle" /\ ret = None
  /\ printed = <<>> /\ outcome = "" /\ class_table = <<>> /\ math_rs = <<>>

\* one run of z_vec.py on a program.s of at most MaxLen lines
Init == InitZ /\ IdleP

Next == EvalStep \/ StartScan \/ ScanStep \/ Finish

Spec == Init /\ [][Next]_vars

\* a search of either file called with positive n and m, its result handed to
\* the file's generator search
InitFind ==
  /\ IdleZ
  /\ script \in Scripts
  /\ fn \in FunctionsOf(script)
  /\ n \in 1..MaxN
  /\ m \in 1..MaxN
  /\ file = <<>> /\ n_i = 0 /\ n_g = 0
  /\ prime = None /\ gp = 0 /\ g = 0 /\ fpc = "search" /\ ret = None
  /\ printed = <<>> /\ outcome = "" /\ class_table = <<>> /\ math_rs = <<>>

NextFind == Search \/ EnterGenerator \/ GeneratorLoop

SpecFind == InitFind /\ [][NextFind]_vars

\* one run of a prime-finder script on an instruction file of at most MaxFile
\* lines
InitScript ==
  /\ IdleZ
  /\ script \in Scripts
  /\ fn = CalledBy(script)
  /\ file \in Files
  /\ n_i = 0 /\ n_g = 0 /\ n = 0 /\ m = 0
  /\ prime = None /\ gp = 0 /\ g = 0 /\ fpc = "count" /\ ret = None
  /\ printed = <<>> /\ outcome = "" /\ class_table = <<>> /\ math_rs = <<>>

NextScript == Count \/ Search \/ EnterGenerator \/ GeneratorLoop \/ SetupTail

SpecScript == InitScript /\ [][NextScript]_vars

----------------------------------------------------------------------------
(* Properties *)

\* how often v occurs in a sequence
Occurrences(s, v) == Cardinality({j \in 1..Len(s) : s[j] = v})

\* the value of the last write event of register r in the trace
LastWrite(r) ==
  w_raw[Highest({j \in 1..Len(w_raw) : w_raw[j][1] = r})][2]

\* the write events that a later instruction of the trace overwrites
IsDead(j) == \E q \in (j + 1)..Len(w_raw) : w_raw[q][1] = w_raw[j][1]

RECURSIVE DeadValuesFrom(_)
DeadValuesFrom(j) ==
  IF j > Len(w_raw) THEN <<>>
  ELSE IF IsDead(j) THEN <<w_raw[j][2]>> \o DeadValuesFrom(j + 1)
  ELSE DeadValuesFrom(j + 1)

\* primality by definition
IsPrime(q) == q > 1 /\ \A d \in 2..(q - 1) : q % d # 0

\* the primes below 2^SearchBits with q - 1 divisible by both nn and mm
Qualifying(nn, mm) ==
  {q \in 2..(2^SearchBits - 1) :
     (q - 1) % nn = 0 /\ (q - 1) % mm = 0 /\ IsPrime(q)}

GCD(a, b) == Highest({d \in 1..a : a % d = 0 /\ b % d = 0})

\* multiplicative order of a modulo the prime q (a not divisible by q)
Order(a, q) == Lowest({e \in 1..(q - 1) : ModPow(a, e, q) = 1})

PrimitiveRoot(a, q) == a % q # 0 /\ Order(a, q) = q - 1

\* C1: when z_vec.py has run to completion, X has exactly 32 entries and
\* len(X) + len(W) + len(Y) = 32 + number of instructions; every write event's
\* value is in W or Y as often as the evaluation produced it (in exactly one
\* of the two, never dropped, never doubled).
C1_LengthAccounting ==
  pc = "done" =>
    /\ Len(x) = 32
    /\ Len(x) + Len(w) + Len(y) = 32 + Len(parsed_data)
    /\ Len(w_raw) = Len(parsed_data)
    /\ \A j \in 1..Len(w_raw) :
         Occurrences(w \o y, w_raw[j][2])
           = Occurrences([q \in 1..Len(w_raw) |-> w_raw[q][2]], w_raw[j][2])

\* a completed run of at least three instructions that left entries in both
\* W and Y
C1_Witness ==
  pc = "done" /\ Len(parsed_data) >= 3 /\ Len(w) >= 1 /\ Len(y) >= 2

\* C2: the entries of Y come from pairwise distinct destination registers (t
\* lists them in the order of discovery, Y in the reverse order), and each is
\* the value mod p of the last write to its register, which is the register's
\* final value.
C2_YDistinctFinalValues ==
  pc = "done" =>
    /\ Len(t) = Len(y)
    /\ \A a \in 1..Len(t) : \A b \in 1..Len(t) : a # b => t[a] # t[b]
    /\ \A j \in 1..Len(t) :
         /\ y[Len(y) + 1 - j] = LastWrite(t[j])
         /\ y[Len(y) + 1 - j] = register_map[t[j]] % p

\* a completed run with two registers in Y, one of them written more than
\* once and holding a final value of p or more
C2_Witness ==
  /\ pc = "done"
  /\ Len(y) >= 2
  /\ \E j \in 1..Len(t) :
       /\ Cardinality({q \in 1..Len(w_raw) : w_raw[q][1] = t[j]}) >= 2
       /\ register_map[t[j]] >= p

\* C3: a value p returned by find_largest_prime, find_small_prime or
\* find_large_prime for positive n and m is prime, below 2^SearchBits (2^31 in
\* the code), and p - 1 is divisible by n and by m.
C3_ReturnedPrimeQualifies ==
  (fpc # "search" /\ prime[1] = "value") =>
    /\ IsPrime(prime[2])
    /\ prime[2] < 2^SearchBits
    /\ (prime[2] - 1) % n = 0
    /\ (prime[2] - 1) % m = 0

\* the strided search returned a prime below the top of the range for n, m > 1
C3_Witness ==
  /\ fn = "find_large_prime"
  /\ fpc # "search"
  /\ prime[1] = "value"
  /\ n > 1 /\ m > 1
  /\ prime[2] < max_32_bit

\* C4: find_largest_prime returns the largest, find_small_prime the smallest
\* prime below 2^SearchBits with p - 1 divisible by n and m, and None only when
\* there is no such prime.
C4_LargestAndSmallest ==
  (fpc # "search" /\ fn \in {"find_largest_prime", "find_small_prime"}) =>
    IF Qualifying(n, m) = {} THEN prime = None
    ELSE IF fn = "find_largest_prime"
         THEN prime = Value(Highest(Qualifying(n, m)))
         ELSE prime = Value(Lowest(Qualifying(n, m)))

\* the generator search is over for the prime the search returned
GeneratorSearchOver == prime[1] = "value" /\ fpc \in {"returned", "ended"}

\* C5: for every prime the search returns, the generator search ends by
\* yielding a g >= 2 that is a primitive root modulo p, no h in 2..g-1 being
\* one; for p = 7 it yields 3.
C5_GeneratorYields ==
  GeneratorSearchOver =>
    /\ ret = <<prime[2], g>>
    /\ g >= 2
    /\ PrimitiveRoot(g, prime[2])
    /\ \A h \in 2..(g - 1) : ~PrimitiveRoot(h, prime[2])
    /\ prime[2] = 7 => g = 3

\* the same for the odd primes: every prime but 2
GeneratorYieldsForOddPrime ==
  (GeneratorSearchOver /\ prime[2] >= 3) =>
    /\ ret = <<prime[2], g>>
    /\ g >= 2
    /\ PrimitiveRoot(g, prime[2])
    /\ \A h \in 2..(g - 1) : ~PrimitiveRoot(h, prime[2])
    /\ prime[2] = 7 => g = 3

\* C6: when the search returned None, the script ends normally with the
\* not-found message, and nothing is written to class_table.json or math.rs.
C6_NotFoundEndsNormally ==
  (fpc = "ended" /\ prime = None) =>
    /\ outcome = "exit"
    /\ Contains(printed, "No such prime number found.")
    /\ class_table = <<>>
    /\ math_rs = <<>>

\* C7: a trace with a mnemonic outside the closed set makes the run abort: the
\* line is not evaluated (no write event for it) and the Z file is not written.
C7_UnknownMnemonicAborts ==
  (\E j \in 1..Len(parsed_data) : parsed_data[j][1] \notin ClosedSet) =>
    /\ z_file = <<>>
    /\ pc # "done"
    /\ \A j \in 1..Len(w_raw) : parsed_data[j][1] \in ClosedSet

\* C8: W is exactly the dead write events (those whose register a later
\* instruction writes again), in trace order, as values mod p.
C8_WIsTheDeadWrites ==
  pc = "done" => w = DeadValuesFrom(1)

\* C9 as stated: the strided find_large_prime returns what the exhaustive
\* find_largest_prime returns, None included.
C9_StridedEqualsExhaustive ==
  (fn = "find_large_prime" /\ fpc # "search") => prime = find_largest_prime(n, m)

\* C9 amended: for coprime n and m the strided find_large_prime returns what
\* the exhaustive find_largest_prime returns, None included.
C9_StridedEqualsExhaustiveCoprime ==
  (fn = "find_large_prime" /\ fpc # "search" /\ GCD(n, m) = 1) =>
    prime = find_largest_prime(n, m)

\* the strided search returned a prime below the top of the range for coprime
\* n, m > 1
C9_Witness ==
  /\ fn = "find_large_prime"
  /\ fpc # "search"
  /\ GCD(n, m) = 1
  /\ n > 1 /\ m > 1
  /\ prime[1] = "value"
  /\ prime[2] < max_32_bit

\* C10: the counts a script derives are positive, and the search never divides
\* by zero.
C10_CountsPositive ==
  fpc # "count" => (n > 0 /\ m > 0 /\ outcome # "ZeroDivisionError")

====
